---- MODULE Spec2Model ----
(***************************************************************************)
(* BookMetrics Pro (src/app.py): a Streamlit script that loads a CSV of    *)
(* bestselling books, cleans it (load_data), filters it by six sidebar     *)
(* controls, and derives KPIs, top-N selections, grouped aggregate tables, *)
(* a display table and a CSV export.  Every widget change reruns the whole *)
(* script; load_data is memoised by st.cache_data for the process.         *)
(*                                                                         *)
(* Representation.  A cell that pandas holds as NaN/NaT is NA (the empty   *)
(* tuple); a present value v is Some(v) = <<v>>.  Text cells that the code *)
(* parses (id, Rating, price, Publishing date) are sequences of one-       *)
(* character strings.  Ratings and prices are fixed point, in hundredths.  *)
(* Author and Genre names are positive integers standing for the names in  *)
(* alphabetical order, so that sorted() and groupby's key order are the    *)
(* integer order.  Each row carries idx, its pandas index label.  The      *)
(* columns Print Length and Popularity Score feed no modelled computation  *)
(* and are left out.                                                       *)
(***************************************************************************)
EXTENDS Integers, Sequences, FiniteSets, TLC

\* ---------------------------------------------------------------- bounds
MaxRows == 2
MaxSteps == 2
MaxPick == 1
MaxTicks == 1
BigRows == 17

\* ------------------------------------------------------ program constants
TopN == 10
TopAuthorsN == 15
DetailsN == 5
AllGenres == 0
AllAuthors == 0
AllYears == 0
AllFormats == <<"All Formats">>
NotSpecified == <<"Not Specified">>
DefaultRating == 0
MaxRating == 500
RatingStep == 10
PriceStep == 100

\* ------------------------------------------------------------ missing data
NA == <<>>
Some(v) == <<v>>
notna(x) == x # NA

Min2(a, b) == IF a <= b THEN a ELSE b

SetMin(S) == CHOOSE x \in S : \A y \in S : x <= y
SetMax(S) == CHOOSE x \in S : \A y \in S : y <= x

\* ------------------------------------------------------------ text parsing
Digits == <<"0", "1", "2", "3", "4", "5", "6", "7", "8", "9">>
IsDigit(c) == \E k \in 1..10 : Digits[k] = c
DigitVal(c) == (CHOOSE k \in 1..10 : Digits[k] = c) - 1

RECURSIVE DigitsVal(_)
DigitsVal(ds) ==
    IF ds = <<>> THEN 0
    ELSE DigitsVal(SubSeq(ds, 1, Len(ds) - 1)) * 10 + DigitVal(ds[Len(ds)])

AllDigits(s) == Len(s) > 0 /\ \A k \in 1..Len(s) : IsDigit(s[k])

\* Last position of the run of digits that starts at i (s[i] is a digit).
DigitRunEnd(s, i) ==
    SetMax({j \in i..Len(s) : \A k \in i..j : IsDigit(s[k])})

\* A fraction's digits as hundredths; digits past the second are dropped
\* (the inputs of this model carry at most two).
Hundredths(fs) ==
    IF Len(fs) = 1 THEN DigitVal(fs[1]) * 10
    ELSE DigitVal(fs[1]) * 10 + DigitVal(fs[2])

\* re "(\d+\.\d+)" anchored at i: the greedy digit run, a dot, a digit.
MatchAt(s, i) ==
    /\ IsDigit(s[i])
    /\ LET j == DigitRunEnd(s, i)
       IN  j + 2 <= Len(s) /\ s[j + 1] = "." /\ IsDigit(s[j + 2])

\* Series.str.extract(r"(\d+\.\d+)").astype(float) on one cell: the first
\* match, NaN when the cell is missing or holds no match.
ExtractRating(cell) ==
    LET starts == {i \in 1..Len(cell) : MatchAt(cell, i)}
    IN  IF starts = {} THEN NA
        ELSE LET i == SetMin(starts)
                 j == DigitRunEnd(cell, i)
                 k == DigitRunEnd(cell, j + 2)
             IN  Some(DigitsVal(SubSeq(cell, i, j)) * 100
                      + Hundredths(SubSeq(cell, j + 2, k)))

StripChars(s, cs) == SelectSeq(s, LAMBDA c : c \notin cs)

\* float(text) for plain decimals: [-]digits[.digits]; ok = FALSE is ValueError.
ParseFloat(s) ==
    LET neg  == Len(s) > 0 /\ s[1] = "-"
        body == IF neg THEN SubSeq(s, 2, Len(s)) ELSE s
        dots == {k \in 1..Len(body) : body[k] = "."}
        ip   == IF dots = {} THEN body ELSE SubSeq(body, 1, SetMin(dots) - 1)
        fp   == IF dots = {} THEN <<>>
                ELSE SubSeq(body, SetMin(dots) + 1, Len(body))
        good == AllDigits(ip) /\ (dots = {} \/ AllDigits(fp))
        mag  == DigitsVal(ip) * 100 + (IF fp = <<>> THEN 0 ELSE Hundredths(fp))
    IN  IF good THEN [ok |-> TRUE, v |-> IF neg THEN 0 - mag ELSE mag]
        ELSE [ok |-> FALSE, v |-> 0]

\* int(text): [-]digits; ok = FALSE is ValueError.
ParseInt(s) ==
    LET neg  == Len(s) > 0 /\ s[1] = "-"
        body == IF neg THEN SubSeq(s, 2, Len(s)) ELSE s
    IN  IF AllDigits(body)
        THEN [ok |-> TRUE, v |-> IF neg THEN 0 - DigitsVal(body) ELSE DigitsVal(body)]
        ELSE [ok |-> FALSE, v |-> 0]

\* df["price"].replace('[\$,]', '', regex=True).astype(float) on one cell.
CleanPrice(cell) ==
    IF cell = NA THEN [ok |-> TRUE, v |-> NA]
    ELSE LET p == ParseFloat(StripChars(cell, {"$", ","}))
         IN  [ok |-> p.ok, v |-> Some(p.v)]

\* df["id"].str.replace("#", "").astype(int) on one cell; a missing id
\* cannot be cast to int.
CleanRank(cell) ==
    IF cell = NA THEN [ok |-> FALSE, v |-> 0]
    ELSE ParseInt(StripChars(cell, {"#"}))

DaysIn(y, m) ==
    IF m = 2 THEN (IF y % 4 = 0 /\ (y % 100 # 0 \/ y % 400 = 0) THEN 29 ELSE 28)
    ELSE IF m \in {4, 6, 9, 11} THEN 30 ELSE 31

\* pd.to_datetime(cell, errors="coerce") for ISO dates YYYY-MM-DD; anything
\* else in this model's inputs is unparseable text and becomes NaT.
ParseDate(cell) ==
    IF /\ Len(cell) = 10
       /\ cell[5] = "-" /\ cell[8] = "-"
       /\ \A k \in {1, 2, 3, 4, 6, 7, 9, 10} : IsDigit(cell[k])
    THEN LET y == DigitsVal(SubSeq(cell, 1, 4))
             m == DigitsVal(SubSeq(cell, 6, 7))
             d == DigitsVal(SubSeq(cell, 9, 10))
         IN  IF m \in 1..12 /\ d >= 1 /\ d <= DaysIn(y, m) THEN Some(<<y, m, d>>)
             ELSE NA
    ELSE NA

\* read_csv's dtype inference: a column of a non-empty table whose cells are
\* all numbers or empty is numeric, and a numeric Series has no .str.
NumericCell(cell) == cell = NA \/ ParseFloat(cell).ok
RatingIsNumeric(rows) ==
    Len(rows) > 0 /\ \A i \in 1..Len(rows) : NumericCell(rows[i].Rating)
IdIsNumeric(rows) ==
    Len(rows) > 0 /\ \A i \in 1..Len(rows) : NumericCell(rows[i].id)

\* df["price"] * df["reviews count"]; NaN propagates.
Revenue(price, reviews) == IF price = NA THEN NA ELSE Some(price[1] * reviews)

\* One row after the cleaning pipeline (steps 1-6 of load_data).
CleanRow(r, i) ==
    LET date == ParseDate(r.date)
        price == CleanPrice(r.price).v
    IN  [idx |-> i,
         id |-> r.id,
         name |-> r.name,
         Author |-> r.Author,
         Genre |-> r.Genre,
         Rating |-> ExtractRating(r.Rating),
         price |-> price,
         reviews |-> r.reviews,
         form |-> r.form,
         date |-> date,
         age |-> IF r.age = NA THEN NotSpecified ELSE r.age,
         Rank |-> CleanRank(r.id).v,
         Year |-> IF date = NA THEN NA ELSE Some(date[1][1]),
         Month |-> IF date = NA THEN NA ELSE Some(date[1][2]),
         Revenue |-> Revenue(price, r.reviews)]

\* load_data(): None when the file is absent; an uncaught exception when a
\* strict conversion fails; else the cleaned frame.
load_data(f) ==
    IF ~f.exists THEN [status |-> "not_found", df |-> <<>>]
    ELSE IF RatingIsNumeric(f.rows) THEN [status |-> "AttributeError", df |-> <<>>]
    ELSE IF \E i \in 1..Len(f.rows) : ~CleanPrice(f.rows[i].price).ok
         THEN [status |-> "ValueError", df |-> <<>>]
    ELSE IF IdIsNumeric(f.rows) THEN [status |-> "AttributeError", df |-> <<>>]
    ELSE IF \E i \in 1..Len(f.rows) : ~CleanRank(f.rows[i].id).ok
         THEN [status |-> "ValueError", df |-> <<>>]
    ELSE [status |-> "ok", df |-> [i \in 1..Len(f.rows) |-> CleanRow(f.rows[i], i)]]

\* ------------------------------------------------------------ the sidebar
ColumnValues(d, col) == {d[i][col] : i \in 1..Len(d)}

\* sorted(df[col].unique().tolist()): comparing NaN (a float) with a str
\* raises TypeError; a list holding only NaN is never compared.
SortRaises(vals) == NA \in vals /\ vals # {NA}

genre_options(d) == {Some(AllGenres)} \cup ColumnValues(d, "Genre")
author_options(d) == {Some(AllAuthors)} \cup ColumnValues(d, "Author")
format_options(d) == {AllFormats} \cup ColumnValues(d, "form")
year_options(d) == {Some(AllYears)} \cup (ColumnValues(d, "Year") \ {NA})

Prices(d) == {d[i].price[1] : i \in {k \in 1..Len(d) : notna(d[k].price)}}

\* (float(df["price"].min()), float(df["price"].max())): NaN for no prices.
DefaultPriceRange(d) ==
    IF Prices(d) = {} THEN <<NA, NA>>
    ELSE <<Some(SetMin(Prices(d))), Some(SetMax(Prices(d)))>>

\* if "All Genres" in genre_filter or len(genre_filter) == 0: notna, else isin
\* (isin matches NaN with NaN, as set membership does here).
genre_mask(gf, r) ==
    IF Some(AllGenres) \in gf \/ gf = {} THEN notna(r.Genre) ELSE r.Genre \in gf

author_mask(af, r) ==
    IF Some(AllAuthors) \in af \/ af = {} THEN notna(r.Author) ELSE r.Author \in af

betweenExclusive(p, lo, hi) ==
    notna(p) /\ notna(lo) /\ notna(hi) /\ lo[1] < p[1] /\ p[1] < hi[1]

\* Series.between(lo, hi), inclusive on both ends; NaN compares False.
between(p, lo, hi) ==
    notna(p) /\ notna(lo) /\ notna(hi) /\ lo[1] <= p[1] /\ p[1] <= hi[1]

rating_le(rating, rf) == notna(rating) /\ rating[1] <= rf

\* Series >= threshold; NaN compares False.
rating_ge(rating, rf) == notna(rating) /\ rating[1] >= rf

\* Series == value; NaN compares False, also with NaN.
eq(a, b) == notna(a) /\ notna(b) /\ a = b

\* Lines 164-176: four successive boolean-index selections; each keeps the
\* rows in order, with their index labels.
ApplyFilters(d, gf, af, pr, rf, ff, yf) ==
    LET f1 == SelectSeq(d, LAMBDA r : genre_mask(gf, r) /\ author_mask(af, r))
        f2 == SelectSeq(f1, LAMBDA r : between(r.price, pr[1], pr[2])
                                       /\ rating_ge(r.Rating, rf))
        f3 == IF ff # AllFormats THEN SelectSeq(f2, LAMBDA r : eq(r.form, ff))
              ELSE f2
    IN  IF yf # Some(AllYears) THEN SelectSeq(f3, LAMBDA r : eq(r.Year, yf))
        ELSE f3

\* ------------------------------------------------------------- aggregation
RECURSIVE SumSeq(_)
SumSeq(s) == IF s = <<>> THEN 0 ELSE s[1] + SumSeq(Tail(s))

Column(rows, col) == [i \in 1..Len(rows) |-> rows[i][col]]

\* The present values of a column of optional numbers (skipna).
Present(vals) == LET p == SelectSeq(vals, LAMBDA x : notna(x))
                 IN  [i \in 1..Len(p) |-> p[i][1]]

\* Series.sum(): NaN skipped, 0 for no values.
sum(vals) == SumSeq(Present(vals))

meanOrZero(vals) ==
    LET p == Present(vals)
    IN  IF p = <<>> THEN Some(<<0, 1>>) ELSE Some(<<SumSeq(p), Len(p)>>)

\* Series.mean(): NaN skipped; NaN for no values.  A mean is kept exact, as
\* <<sum, count>>.
mean(vals) ==
    LET p == Present(vals)
    IN  IF p = <<>> THEN NA ELSE Some(<<SumSeq(p), Len(p)>>)

\* Series.count(): the non-missing cells.
count(vals) == Len(SelectSeq(vals, LAMBDA x : notna(x)))

\* round(x, 2) of a mean in hundredths: round half to even; NaN stays NaN.
round2(m) ==
    IF m = NA THEN NA
    ELSE LET s == m[1][1]
             n == m[1][2]
             q == (2 * s + n) \div (2 * n)
         IN  Some(IF (2 * s + n) % (2 * n) = 0 /\ q % 2 = 1 THEN q - 1 ELSE q)

\* Positions 1..n of keys in descending key order, equal keys in position
\* order (a stable sort).
RECURSIVE SortedDesc(_, _)
SortedDescKeepLast(keys, n) ==
    IF n = 0 THEN <<>>
    ELSE LET prev == SortedDesc(keys, n - 1)
             c == Cardinality({p \in 1..Len(prev) : keys[prev[p]] > keys[n]})
         IN  SubSeq(prev, 1, c) \o <<n>> \o SubSeq(prev, c + 1, Len(prev))
SortedDesc(keys, n) ==
    IF n = 0 THEN <<>>
    ELSE LET prev == SortedDesc(keys, n - 1)
             c == Cardinality({p \in 1..Len(prev) : keys[prev[p]] >= keys[n]})
         IN  SubSeq(prev, 1, c) \o <<n>> \o SubSeq(prev, c + 1, Len(prev))

\* The number in a metric column: reviews counts are plain integers, the
\* other metrics optional numbers that are present.
Metric(r, col) == IF col \in {"reviews", "TotalReviews"} THEN r[col] ELSE r[col][1]

\* DataFrame.nlargest(n, col) with the default keep="first": the first n
\* rows in descending order of col, the first occurrences winning ties.  The
\* metric columns it is applied to hold no NaN: the filters keep no row
\* without a rating or a price, and review counts are never missing.
nlargest(n, rows, col) ==
    LET keys == [i \in 1..Len(rows) |-> Metric(rows[i], col)]
        perm == SortedDesc(keys, Len(rows))
    IN  [p \in 1..Min2(n, Len(rows)) |-> rows[perm[p]]]

RECURSIVE SortedSeq(_)
SortedSeq(S) ==
    IF S = {} THEN <<>>
    ELSE LET m == SetMin(S) IN <<m>> \o SortedSeq(S \ {m})

\* groupby(col): one group per non-missing key (dropna), keys ascending.
GroupKeys(rows, col) ==
    SortedSeq({rows[i][col][1] : i \in {k \in 1..Len(rows) : notna(rows[k][col])}})
Group(rows, col, key) == SelectSeq(rows, LAMBDA r : r[col] = Some(key))

\* Lines 294-300: Rating mean, reviews count sum, Estimated Revenue sum,
\* Book name count.
GenreStats(rows) ==
    LET keys == GroupKeys(rows, "Genre")
    IN  [k \in 1..Len(keys) |->
            LET g == Group(rows, "Genre", keys[k])
            IN  [Genre |-> keys[k],
                 AvgRating |-> mean(Column(g, "Rating")),
                 TotalReviews |-> SumSeq(Column(g, "reviews")),
                 EstRevenue |-> sum(Column(g, "Revenue")),
                 BookCount |-> count(Column(g, "name"))]]

\* Lines 407-413; reset_index numbers the rows anew, in key order.
AuthorStats(rows) ==
    LET keys == GroupKeys(rows, "Author")
    IN  [k \in 1..Len(keys) |->
            LET g == Group(rows, "Author", keys[k])
            IN  [idx |-> k,
                 Author |-> keys[k],
                 TotalReviews |-> SumSeq(Column(g, "reviews")),
                 AvgRating |-> mean(Column(g, "Rating")),
                 EstRevenue |-> sum(Column(g, "Revenue")),
                 BookCount |-> count(Column(g, "name"))]]

\* Lines 448-459: rows with a year only; Book name count, Rating mean,
\* reviews count sum.  Computed only when trend_df is not empty.
YearlyTrend(rows) ==
    LET trend_df == SelectSeq(rows, LAMBDA r : notna(r.Year))
        keys == GroupKeys(trend_df, "Year")
    IN  [k \in 1..Len(keys) |->
            LET g == Group(trend_df, "Year", keys[k])
            IN  [Year |-> keys[k],
                 BookCount |-> count(Column(g, "name")),
                 AvgRating |-> mean(Column(g, "Rating")),
                 TotalReviews |-> SumSeq(Column(g, "reviews"))]]

\* Lines 243-248: row['Book name'][:40] on each of the first five rows of
\* top_reviews; slicing NaN (a float) raises TypeError.
DetailsRaises(top) == \E p \in 1..Min2(DetailsN, Len(top)) : top[p].name = NA

\* ------------------------------------------------------------- formatting
RECURSIVE NatChars(_)
NatChars(n) ==
    IF n < 10 THEN <<Digits[n + 1]>> ELSE NatChars(n \div 10) \o <<Digits[(n % 10) + 1]>>

Abs(n) == IF n < 0 THEN 0 - n ELSE n
Sign(n) == IF n < 0 THEN <<"-">> ELSE <<>>
Pad2(n) == IF n < 10 THEN <<"0">> \o NatChars(n) ELSE NatChars(n)
Pad4(n) == IF n < 10 THEN <<"0", "0", "0">> \o NatChars(n)
           ELSE IF n < 100 THEN <<"0", "0">> \o NatChars(n)
           ELSE IF n < 1000 THEN <<"0">> \o NatChars(n)
           ELSE NatChars(n)

\* Digits with a comma before every group of three from the right.
RECURSIVE Grouped(_)
Grouped(ds) ==
    IF Len(ds) <= 3 THEN ds
    ELSE Grouped(SubSeq(ds, 1, Len(ds) - 3)) \o <<",">> \o SubSeq(ds, Len(ds) - 2, Len(ds))

\* f"${x:.2f}"
FormatPrice(v) ==
    <<"$">> \o Sign(v) \o NatChars(Abs(v) \div 100) \o <<".">> \o Pad2(Abs(v) % 100)

\* f"${x:,.0f}": no decimals (round half to even), thousands separated.
FormatRevenue(v) ==
    LET a == Abs(v)
        q == (a + 50) \div 100
        r == IF (a + 50) % 100 = 0 /\ q % 2 = 1 THEN q - 1 ELSE q
    IN  <<"$">> \o Sign(v) \o Grouped(NatChars(r))

\* f"{x:,}"
FormatCount(n) == Sign(n) \o Grouped(NatChars(Abs(n)))

\* repr of a float with at most two decimals, as to_csv writes it.
FormatFloat(v) ==
    LET a == Abs(v)
        f == a % 100
    IN  Sign(v) \o NatChars(a \div 100) \o <<".">>
        \o (IF f % 10 = 0 THEN NatChars(f \div 10) ELSE Pad2(f))

FormatDate(d) == Pad4(d[1]) \o <<"-">> \o Pad2(d[2]) \o <<"-">> \o Pad2(d[3])

\* Lines 491-501: a new frame of the shown columns, sorted by Rank (equal
\* ranks in row order), then four columns replaced by text.
DisplayDf(rows) ==
    LET perm == SortedDesc([i \in 1..Len(rows) |-> 0 - rows[i].Rank], Len(rows))
    IN  [p \in 1..Len(rows) |->
            LET r == rows[perm[p]]
            IN  [idx |-> r.idx, Rank |-> r.Rank, name |-> r.name,
                 Author |-> r.Author, Genre |-> r.Genre, Rating |-> r.Rating,
                 reviews |-> FormatCount(r.reviews),
                 price |-> FormatPrice(r.price[1]),
                 form |-> r.form, date |-> r.date,
                 Revenue |-> FormatRevenue(r.Revenue[1])]]

\* filtered_df.to_csv(index=False): one line of cells per row; a float is
\* written by repr, a date as ISO text, NaN as an empty cell.  The derived
\* columns Rank, Year, Month and Estimated Revenue are written too; load_data
\* overwrites them on reading, so they are not carried here.
to_csv(rows) ==
    [i \in 1..Len(rows) |->
        LET r == rows[i]
        IN  [id |-> r.id, name |-> r.name, Author |-> r.Author, Genre |-> r.Genre,
             Rating |-> IF r.Rating = NA THEN NA ELSE FormatFloat(r.Rating[1]),
             price |-> IF r.price = NA THEN NA ELSE FormatFloat(r.price[1]),
             reviews |-> r.reviews, form |-> r.form,
             date |-> IF r.date = NA THEN NA ELSE FormatDate(r.date[1]),
             age |-> r.age]]

\* ------------------------------------------------------------- input files
RawRow(id, name, author, genre, rating, price, reviews, form, date, age) ==
    [id |-> id, name |-> name, Author |-> author, Genre |-> genre,
     Rating |-> rating, price |-> price, reviews |-> reviews, form |-> form,
     date |-> date, age |-> age]

Paperback == <<"Paperback">>
Hardcover == <<"Hardcover">>
Date2023 == <<"2", "0", "2", "3", "-", "0", "1", "-", "0", "5">>
Date2022 == <<"2", "0", "2", "2", "-", "0", "7", "-", "0", "4">>

Rating45 == <<"4", ".", "5", " ", "s">>
Rating48 == <<"4", ".", "8", " ", "s">>
Price5 == <<"$", "5", ".", "0", "0">>
Price7 == <<"$", "7", ".", "0", "0">>

\* The rows small input files are made of: two ordinary rows; a row whose
\* rating and date cannot be parsed; a row of out-of-range values; a row
\* without name, author, genre and format.
RowPool ==
    << RawRow(<<"#", "1">>, Some(1), Some(1), Some(1), Rating45, Price5, 100,
              Paperback, Date2023, <<"8+">>),
       RawRow(<<"#", "2">>, Some(2), Some(2), Some(2), <<"r", " ", "4", ".", "6">>,
              <<"$", "6", ".", "5", "0">>, 200, Hardcover, Date2022, NA),
       RawRow(<<"#", "3">>, Some(3), Some(1), Some(1), <<"n", "o">>, Price7, 100,
              Paperback, <<"n", "/", "a">>, NA),
       RawRow(<<"#", "0">>, Some(4), Some(2), Some(1), <<"9", ".", "5", "/", "5">>,
              <<"$", "-", "1", ".", "0", "0">>, 10, Hardcover, Date2023, NA),
       RawRow(<<"#", "6">>, NA, NA, NA, Rating45, Price5, 50, NA, Date2023, NA) >>

\* A small input file: at most MaxRows rows of the pool, in the pool's order.
Picked(S) ==
    LET at == SortedSeq(S) IN [k \in 1..Len(at) |-> RowPool[at[k]]]
SmallFiles ==
    {Picked(S) : S \in {T \in SUBSET (1..Len(RowPool)) : Cardinality(T) <= MaxRows}}

\* Files that strict parsing or dtype inference decides: a malformed price;
\* a rating column of bare numbers; a bare-number rating beside a text one,
\* with a price that has a thousands separator; an id column of bare
\* numbers; a missing id; an author column with no value at all.
MalformedPrice ==
    RawRow(<<"#", "5">>, Some(5), Some(1), Some(2), Rating45, <<"f", "r", "e", "e">>,
           30, Paperback, Date2022, NA)
BareRating ==
    RawRow(<<"#", "7">>, Some(7), Some(2), Some(2), <<"4", ".", "7">>,
           <<"$", "1", ",", "0", "0", "5", ".", "0", "0">>, 100, Paperback,
           Date2022, NA)
BareId ==
    RawRow(<<"8">>, Some(8), Some(1), Some(1), Rating45, Price5, 100, Paperback,
           Date2023, NA)
NoId ==
    RawRow(NA, Some(9), Some(1), Some(1), Rating45, Price5, 100, Paperback,
           Date2023, NA)
NoAuthor ==
    RawRow(<<"#", "9">>, Some(9), NA, Some(1), Rating45, Price5, 100, Paperback,
           Date2023, NA)
SpecialFiles ==
    { <<RowPool[1], MalformedPrice>>, <<BareRating>>, <<RowPool[1], BareRating>>,
      <<BareId>>, <<RowPool[1], NoId>>, <<NoAuthor>> }

\* A long input file of BigRows rows, every author distinct, one genre, one
\* format, one year and one price: reviews all tied (1), tied in three
\* classes (2) or all distinct and ascending (3); the last row without its
\* book name in the first.
BigFile(rp) ==
    [i \in 1..BigRows |->
        RawRow(<<"#">> \o NatChars(i),
               IF rp = 1 /\ i = BigRows THEN NA ELSE Some(i),
               Some(i),
               Some(1),
               IF i % 2 = 0 THEN Rating45 ELSE Rating48,
               Price5,
               IF rp = 1 THEN 100 ELSE IF rp = 2 THEN 100 * (1 + (i % 3)) ELSE 10 * i,
               Paperback,
               Date2023,
               NA)]

BigFiles == {BigFile(rp) : rp \in 1..3}

Files ==
    {[exists |-> FALSE, rows |-> <<>>]}
    \cup {[exists |-> TRUE, rows |-> rows] : rows \in SmallFiles \cup SpecialFiles \cup BigFiles}

\* ------------------------------------------------------------------- state
VARIABLES
    file,            \* "best sellin books 2023.csv" on disk
    proc,            \* how many times the process has been started
    steps,           \* user interactions so far
    cache,           \* st.cache_data's memo of load_data()
    df,              \* the cleaned frame of this session
    pc,              \* where the last script run ended
    exported,        \* the subset whose export was saved over the input file
    loaded_export,   \* this process loaded that export
    genre_filter, author_filter, price_range, rating_filter, format_filter,
    year_filter,
    filtered_df, total_books, avg_rating, total_reviews, avg_price,
    total_revenue, top_reviews, top_rated, top_revenue, genre_stats,
    author_stats, top_authors, yearly_trend, display_df, csv

widgets == <<genre_filter, author_filter, price_range, rating_filter,
             format_filter, year_filter>>
outputs == <<filtered_df, total_books, avg_rating, total_reviews, avg_price,
             total_revenue, top_reviews, top_rated, top_revenue, genre_stats,
             author_stats, top_authors, yearly_trend, display_df, csv>>
vars == <<file, proc, steps, cache, df, pc, exported, loaded_export, widgets,
          outputs>>

\* The names a script run binds from line 164 on; a name the run did not
\* reach is shown as the empty frame / NaN.
Unbound ==
    [filtered_df |-> <<>>, total_books |-> 0, avg_rating |-> NA,
     total_reviews |-> 0, avg_price |-> NA, total_revenue |-> 0,
     top_reviews |-> <<>>, top_rated |-> <<>>, top_revenue |-> <<>>,
     genre_stats |-> <<>>, author_stats |-> <<>>, top_authors |-> <<>>,
     yearly_trend |-> <<>>, display_df |-> <<>>, csv |-> <<>>]

\* Lines 164-517 on frame d under one filter selection.
Body(d, gf, af, pr, rf, ff, yf) ==
    LET f == ApplyFilters(d, gf, af, pr, rf, ff, yf)
        tr == nlargest(TopN, f, "reviews")
        kpis == [Unbound EXCEPT
                    !.filtered_df = f,
                    !.total_books = Len(f),
                    !.avg_rating = round2(mean(Column(f, "Rating"))),
                    !.total_reviews = SumSeq(Column(f, "reviews")),
                    !.avg_price = round2(mean(Column(f, "price"))),
                    !.total_revenue = sum(Column(f, "Revenue")),
                    !.top_reviews = tr]
    IN  IF DetailsRaises(tr) THEN [pc |-> "details_failed", out |-> kpis]
        ELSE LET as == AuthorStats(f)
             IN  [pc |-> "done",
                  out |-> [kpis EXCEPT
                      !.top_rated = nlargest(TopN, f, "Rating"),
                      !.top_revenue = nlargest(TopN, f, "Revenue"),
                      !.genre_stats = GenreStats(f),
                      !.author_stats = as,
                      !.top_authors = nlargest(TopAuthorsN, as, "TotalReviews"),
                      !.yearly_trend = YearlyTrend(f),
                      !.display_df = DisplayDf(f),
                      !.csv = to_csv(f)]]

Bind(o) ==
    /\ filtered_df' = o.filtered_df
    /\ total_books' = o.total_books
    /\ avg_rating' = o.avg_rating
    /\ total_reviews' = o.total_reviews
    /\ avg_price' = o.avg_price
    /\ total_revenue' = o.total_revenue
    /\ top_reviews' = o.top_reviews
    /\ top_rated' = o.top_rated
    /\ top_revenue' = o.top_revenue
    /\ genre_stats' = o.genre_stats
    /\ author_stats' = o.author_stats
    /\ top_authors' = o.top_authors
    /\ yearly_trend' = o.yearly_trend
    /\ display_df' = o.display_df
    /\ csv' = o.csv

SetWidgets(gf, af, pr, rf, ff, yf) ==
    /\ genre_filter' = gf
    /\ author_filter' = af
    /\ price_range' = pr
    /\ rating_filter' = rf
    /\ format_filter' = ff
    /\ year_filter' = yf

\* @st.cache_data: the memoised result if there is one, else a fresh load.
UncachedLoad(c, f) == load_data(f)
cached_load(c, f) == IF c # NA THEN c[1] ELSE load_data(f)

\* One run of the script, top to bottom, with the widgets at the given
\* values (a widget the run does not reach keeps no value: its default).
Script(c, gf, af, pr, rf, ff, yf, fresh) ==
    LET d == c.df
        dgf == {Some(AllGenres)}
        daf == {Some(AllAuthors)}
    IN  IF c.status = "not_found"
        THEN /\ pc' = "stopped"
             /\ cache' = Some(c)
             /\ df' = <<>>
             /\ SetWidgets(dgf, daf, <<NA, NA>>, DefaultRating, AllFormats, Some(AllYears))
             /\ Bind(Unbound)
        ELSE IF c.status # "ok"
        THEN /\ pc' = "load_failed"
             /\ cache' = NA
             /\ df' = <<>>
             /\ SetWidgets(dgf, daf, <<NA, NA>>, DefaultRating, AllFormats, Some(AllYears))
             /\ Bind(Unbound)
        ELSE IF SortRaises(ColumnValues(d, "Genre")) \/ SortRaises(ColumnValues(d, "Author"))
        THEN /\ pc' = "sidebar_failed"
             /\ cache' = Some(c)
             /\ df' = d
             /\ SetWidgets(dgf, daf, <<NA, NA>>, DefaultRating, AllFormats, Some(AllYears))
             /\ Bind(Unbound)
        ELSE LET p == IF fresh THEN DefaultPriceRange(d) ELSE pr
                 b == Body(d, gf, af, p, rf, ff, yf)
             IN  /\ pc' = b.pc
                 /\ cache' = Some(c)
                 /\ df' = d
                 /\ SetWidgets(gf, af, p, rf, ff, yf)
                 /\ Bind(b.out)

FreshRun ==
    Script(load_data(file), {Some(AllGenres)}, {Some(AllAuthors)}, <<NA, NA>>, DefaultRating,
           AllFormats, Some(AllYears), TRUE)

Init ==
    /\ file \in Files
    /\ proc = 0
    /\ steps = 0
    /\ cache = NA
    /\ df = <<>>
    /\ pc = "init"
    /\ exported = NA
    /\ loaded_export = FALSE
    /\ genre_filter = {Some(AllGenres)}
    /\ author_filter = {Some(AllAuthors)}
    /\ price_range = <<NA, NA>>
    /\ rating_filter = DefaultRating
    /\ format_filter = AllFormats
    /\ year_filter = Some(AllYears)
    /\ filtered_df = <<>> /\ total_books = 0 /\ avg_rating = NA
    /\ total_reviews = 0 /\ avg_price = NA /\ total_revenue = 0
    /\ top_reviews = <<>> /\ top_rated = <<>> /\ top_revenue = <<>>
    /\ genre_stats = <<>> /\ author_stats = <<>> /\ top_authors = <<>>
    /\ yearly_trend = <<>> /\ display_df = <<>> /\ csv = <<>>

\* `streamlit run app.py`: the first run of the script.
Start ==
    /\ pc = "init"
    /\ proc' = 1
    /\ FreshRun
    /\ UNCHANGED <<file, steps, exported, loaded_export>>

\* The process is stopped and started again: the memo is gone, the file on
\* disk is read anew, every widget is at its default.
Restart ==
    /\ pc # "init"
    /\ steps < MaxSteps
    /\ steps' = steps + 1
    /\ proc' = proc + 1
    /\ FreshRun
    /\ loaded_export' = (exported # NA)
    /\ UNCHANGED <<file, exported>>

\* A widget change: the script runs again with the new selection; load_data
\* answers from its memo.
Rerun(gf, af, pr, rf, ff, yf) ==
    /\ pc \in {"done", "details_failed"}
    /\ steps < MaxSteps
    /\ steps' = steps + 1
    /\ Script(cached_load(cache, file), gf, af, pr, rf, ff, yf, FALSE)
    /\ UNCHANGED <<file, proc, exported, loaded_export>>

\* The options of a multiselect the user picks among: the sentinel and the
\* first MaxPick entries of the sorted list.
Pickable(options, sentinel) ==
    LET others == options \ {Some(sentinel)}
    IN  {Some(sentinel)}
        \cup {o \in others :
                o = NA \/ Cardinality({q \in others \ {NA} : q[1] < o[1]}) < MaxPick}

\* The slider positions the user picks among: the first MaxTicks steps of
\* 1.0 up from the minimum, and the maximum.
Ticks(d) ==
    IF Prices(d) = {} THEN {}
    ELSE LET lo == SetMin(Prices(d))
             hi == SetMax(Prices(d))
         IN  {hi} \cup {t \in {lo + PriceStep * k : k \in 0..(MaxTicks - 1)} : t <= hi}

\* The minimum ratings the user picks among, of 0.0, 0.1, ..., 5.0.
RatingChoices == {DefaultRating, 450, 460}

SetGenre ==
    /\ pc \in {"done", "details_failed"}
    /\ \E gf \in SUBSET Pickable(genre_options(df), AllGenres) :
        /\ gf # genre_filter
        /\ Rerun(gf, author_filter, price_range, rating_filter, format_filter,
                 year_filter)

SetAuthor ==
    /\ pc \in {"done", "details_failed"}
    /\ \E af \in SUBSET Pickable(author_options(df), AllAuthors) :
        /\ af # author_filter
        /\ Rerun(genre_filter, af, price_range, rating_filter, format_filter,
                 year_filter)

SetPrice ==
    /\ pc \in {"done", "details_failed"}
    /\ \E lo \in Ticks(df), hi \in Ticks(df) :
        /\ lo <= hi
        /\ <<Some(lo), Some(hi)>> # price_range
        /\ Rerun(genre_filter, author_filter, <<Some(lo), Some(hi)>>,
                 rating_filter, format_filter, year_filter)

SetRating ==
    /\ pc \in {"done", "details_failed"}
    /\ \E rf \in RatingChoices :
        /\ rf # rating_filter
        /\ Rerun(genre_filter, author_filter, price_range, rf, format_filter,
                 year_filter)

SetFormat ==
    /\ pc \in {"done", "details_failed"}
    /\ \E ff \in format_options(df) :
        /\ ff # format_filter
        /\ Rerun(genre_filter, author_filter, price_range, rating_filter, ff,
                 year_filter)

SetYear ==
    /\ pc \in {"done", "details_failed"}
    /\ \E yf \in year_options(df) :
        /\ yf # year_filter
        /\ Rerun(genre_filter, author_filter, price_range, rating_filter,
                 format_filter, yf)

\* The user downloads the export and saves it as the input file.  The
\* running session is not touched.
SaveExport ==
    /\ pc = "done"
    /\ steps < MaxSteps
    /\ steps' = steps + 1
    /\ file' = [exists |-> TRUE, rows |-> csv]
    /\ exported' = Some(filtered_df)
    /\ loaded_export' = FALSE
    /\ UNCHANGED <<proc, cache, df, pc, widgets, outputs>>

Next ==
    \/ Start
    \/ Restart
    \/ SetGenre
    \/ SetAuthor
    \/ SetPrice
    \/ SetRating
    \/ SetFormat
    \/ SetYear
    \/ SaveExport

Spec == Init /\ [][Next]_vars

\* ==================================================================
\* Properties
\* ==================================================================
\* The script ran at least to the end of the filters (line 176).
Filtered == pc \in {"done", "details_failed"}

PriceBounded(r) ==
    /\ notna(r.price) /\ notna(price_range[1]) /\ notna(price_range[2])
    /\ price_range[1][1] <= r.price[1]
    /\ r.price[1] <= price_range[2][1]

GenreChosen(r) ==
    IF genre_filter = {} \/ Some(AllGenres) \in genre_filter
    THEN r.Genre # NA ELSE r.Genre \in genre_filter

AuthorChosen(r) ==
    IF author_filter = {} \/ Some(AllAuthors) \in author_filter
    THEN r.Author # NA ELSE r.Author \in author_filter

FormatChosen(r) ==
    format_filter = AllFormats \/ (r.form # NA /\ r.form = format_filter)

YearChosen(r) ==
    year_filter = Some(AllYears) \/ (r.Year # NA /\ r.Year = year_filter)

RatingReached(r) == r.Rating # NA /\ r.Rating[1] >= rating_filter

\* The five predicates other than the rating's.
PassesOthers(r) ==
    GenreChosen(r) /\ AuthorChosen(r) /\ PriceBounded(r) /\ FormatChosen(r)
    /\ YearChosen(r)

Passes(r) == PassesOthers(r) /\ RatingReached(r)

Labels(rows) == {rows[k].idx : k \in 1..Len(rows)}

\* C1: the filtered subset holds exactly the rows of the cleaned dataset that
\* pass all six predicates (genre, author, inclusive price range, minimum
\* rating, format, year), each row unchanged, in the dataset's order.
C1_FilterIsConjunction ==
    Filtered =>
        /\ Labels(filtered_df) = {i \in 1..Len(df) : Passes(df[i])}
        /\ \A k \in 1..Len(filtered_df) : filtered_df[k] = df[filtered_df[k].idx]
        /\ \A k \in 1..(Len(filtered_df) - 1) :
               filtered_df[k].idx < filtered_df[k + 1].idx

\* C1's case: two filters narrowed, some rows kept and some dropped.
C1_Witness ==
    /\ pc = "done"
    /\ Len(filtered_df) > 0
    /\ Len(filtered_df) < Len(df)
    /\ genre_filter # {} /\ Some(AllGenres) \notin genre_filter
    /\ rating_filter > 0

\* A step of one session in which both script runs reached the filters.
SameSession == proc' = proc /\ Filtered /\ Filtered'

NarrowedGenre ==
    /\ genre_filter' \subseteq genre_filter /\ genre_filter' # genre_filter
    /\ UNCHANGED <<author_filter, price_range, rating_filter, format_filter, year_filter>>
NarrowedAuthor ==
    /\ author_filter' \subseteq author_filter /\ author_filter' # author_filter
    /\ UNCHANGED <<genre_filter, price_range, rating_filter, format_filter, year_filter>>
NarrowedPrice ==
    /\ price_range' # price_range
    /\ notna(price_range[1]) /\ notna(price_range'[1])
    /\ price_range[1][1] <= price_range'[1][1]
    /\ price_range'[2][1] <= price_range[2][1]
    /\ UNCHANGED <<genre_filter, author_filter, rating_filter, format_filter, year_filter>>
NarrowedRating ==
    /\ rating_filter' > rating_filter
    /\ UNCHANGED <<genre_filter, author_filter, price_range, format_filter, year_filter>>
NarrowedFormat ==
    /\ format_filter = AllFormats /\ format_filter' # AllFormats
    /\ UNCHANGED <<genre_filter, author_filter, price_range, rating_filter, year_filter>>
NarrowedYear ==
    /\ year_filter = Some(AllYears) /\ year_filter' # Some(AllYears)
    /\ UNCHANGED <<genre_filter, author_filter, price_range, rating_filter, format_filter>>

NeverMore == Len(filtered_df') <= Len(filtered_df)

\* C2 as stated: narrowing exactly one filter never yields more rows, also
\* when a genre or author selection is narrowed down to the empty selection.
C2_MonotoneAlsoToEmpty ==
    [][(SameSession /\ (NarrowedGenre \/ NarrowedAuthor \/ NarrowedPrice
                        \/ NarrowedRating \/ NarrowedFormat \/ NarrowedYear))
       => NeverMore]_vars

\* C2, amended: narrowing exactly one filter never yields more rows, provided
\* a narrowed genre or author selection is neither the empty selection (which
\* the filters read as "all") nor one that holds the missing-value option
\* (which isin matches, while "all" keeps only the rows that have a value).
C2_Monotone ==
    [][(SameSession /\ (\/ (NarrowedGenre /\ genre_filter' # {} /\ NA \notin genre_filter')
                        \/ (NarrowedAuthor /\ author_filter' # {} /\ NA \notin author_filter')
                        \/ NarrowedPrice \/ NarrowedRating
                        \/ NarrowedFormat \/ NarrowedYear))
       => NeverMore]_vars

\* C2's case: one filter is narrower than its default, and the subset is
\* smaller than the default selection's.
C2_Witness ==
    /\ pc = "done"
    /\ genre_filter # {} /\ Some(AllGenres) \notin genre_filter
    /\ author_filter = {Some(AllAuthors)}
    /\ price_range = DefaultPriceRange(df)
    /\ rating_filter = DefaultRating
    /\ format_filter = AllFormats
    /\ year_filter = Some(AllYears)
    /\ Len(filtered_df) > 0
    /\ Len(filtered_df) < Cardinality({i \in 1..Len(df) : RatingReached(df[i])
                                                        /\ PriceBounded(df[i])})

\* C3: when the filters leave no row, the run completes, the KPIs are count
\* 0, sums 0 and means NaN, and every top-N selection and grouped aggregate
\* is empty.
C3_EmptySubsetIsSafe ==
    (Filtered /\ filtered_df = <<>>) =>
        /\ pc = "done"
        /\ total_books = 0 /\ total_reviews = 0 /\ total_revenue = 0
        /\ avg_rating = NA /\ avg_price = NA
        /\ top_reviews = <<>> /\ top_rated = <<>> /\ top_revenue = <<>>
        /\ genre_stats = <<>> /\ author_stats = <<>> /\ top_authors = <<>>
        /\ yearly_trend = <<>>

\* C3's case: a dataset with rows, filtered down to none.
C3_Witness ==
    /\ pc = "done" /\ Len(df) > 0 /\ filtered_df = <<>>
    /\ \E i \in 1..Len(df) : PassesOthers(df[i]) /\ df[i].Rating # NA

\* C4: the Book Count values of the per-genre table add up to the number of
\* filtered rows.
C4_GenreCountsSumToN ==
    pc = "done" => SumSeq(Column(genre_stats, "BookCount")) = Len(filtered_df)

\* How a top-N selection relates to the table it selects from.
Before(a, b, col) ==
    \/ Metric(a, col) > Metric(b, col)
    \/ (Metric(a, col) = Metric(b, col) /\ a.idx < b.idx)

IsTopN(top, src, col, n) ==
    /\ Len(top) = Min2(n, Len(src))
    /\ \A p \in 1..Len(top) : \E i \in 1..Len(src) : src[i] = top[p]
    /\ \A p \in 1..Len(top), q \in 1..Len(top) : p < q => Before(top[p], top[q], col)
    /\ \A i \in 1..Len(src) :
           src[i].idx \notin Labels(top) =>
               \A p \in 1..Len(top) : Before(top[p], src[i], col)

\* C5: each top-N selection is the N rows of largest metric, in descending
\* order, a row earlier in the table it selects from winning and preceding
\* a row of equal metric.
C5_TopNStable ==
    /\ Filtered => IsTopN(top_reviews, filtered_df, "reviews", TopN)
    /\ pc = "done" =>
        /\ IsTopN(top_rated, filtered_df, "Rating", TopN)
        /\ IsTopN(top_revenue, filtered_df, "Revenue", TopN)
        /\ IsTopN(top_authors, author_stats, "TotalReviews", TopAuthorsN)

\* C5's case: more rows than N, and a tie across the cut, for the books and
\* for the authors.
C5_Witness ==
    /\ pc = "done"
    /\ Len(filtered_df) > TopN
    /\ \E i \in 1..Len(filtered_df) :
           /\ filtered_df[i].idx \notin Labels(top_reviews)
           /\ filtered_df[i].reviews = top_reviews[TopN].reviews
    /\ Len(author_stats) > TopAuthorsN
    /\ \E i \in 1..Len(author_stats) :
           /\ author_stats[i].idx \notin Labels(top_authors)
           /\ author_stats[i].TotalReviews = top_authors[TopAuthorsN].TotalReviews

Members(col, key) == SelectSeq(filtered_df, LAMBDA r : r[col] = Some(key))
KeysOf(col) == {filtered_df[i][col][1] :
                    i \in {k \in 1..Len(filtered_df) : filtered_df[k][col] # NA}}

HasMeasures(row, g) ==
    /\ {"AvgRating", "TotalReviews", "EstRevenue", "BookCount"} \subseteq DOMAIN row
    /\ row.AvgRating = mean(Column(g, "Rating"))
    /\ row.TotalReviews = SumSeq(Column(g, "reviews"))
    /\ row.EstRevenue = sum(Column(g, "Revenue"))
    /\ row.BookCount = Len(g)

\* C6: each grouped table (per genre, per author, per year) has, for every
\* group of the filtered subset, a row with the key, the mean rating, the
\* sum of reviews, the sum of estimated revenue and the row count.
C6_GroupedMeasures ==
    pc = "done" =>
        /\ \A g \in KeysOf("Genre") : \E k \in 1..Len(genre_stats) :
               genre_stats[k].Genre = g /\ HasMeasures(genre_stats[k], Members("Genre", g))
        /\ \A a \in KeysOf("Author") : \E k \in 1..Len(author_stats) :
               author_stats[k].Author = a /\ HasMeasures(author_stats[k], Members("Author", a))
        /\ \A y \in KeysOf("Year") : \E k \in 1..Len(yearly_trend) :
               yearly_trend[k].Year = y /\ HasMeasures(yearly_trend[k], Members("Year", y))

KeyFields(r) == <<r.Rank, r.Rating, r.price, r.reviews, r.Genre, r.Author>>

\* C7: the export, saved as the input file and loaded again, loads and gives
\* the exported subset's row count and key fields.
C7_ExportRoundTrip ==
    loaded_export =>
        /\ pc \notin {"load_failed", "stopped"}
        /\ Len(df) = Len(exported[1])
        /\ \A i \in 1..Len(df) : KeyFields(df[i]) = KeyFields(exported[1][i])

\* C8: every row of a cleaned dataset has price >= 0, reviews count >= 0, a
\* rating missing or within [0, 5], estimated revenue >= 0 and a positive
\* rank.
C8_DataInvariants ==
    \A i \in 1..Len(df) :
        /\ df[i].price # NA => df[i].price[1] >= 0
        /\ df[i].reviews >= 0
        /\ df[i].Rating # NA => (df[i].Rating[1] >= 0 /\ df[i].Rating[1] <= MaxRating)
        /\ df[i].Revenue # NA => df[i].Revenue[1] >= 0
        /\ df[i].Rank > 0

\* C9: within one process the cleaned dataset never changes: no filter
\* change, recomputation, display formatting or export alters a row of it.
C9_DatasetImmutable ==
    [][(proc' = proc /\ proc >= 1) => df' = df]_vars

\* C9's case: the export was saved over the input file and the script ran
\* again in the same process, yet the session's dataset is not the file's.
C9_Witness ==
    /\ pc = "done"
    /\ exported # NA
    /\ ~loaded_export
    /\ filtered_df # exported[1]
    /\ Len(df) > 0
    /\ load_data(file).df # df

\* C10: a row without a rating that passes the other five predicates is in
\* the filtered subset when the minimum rating is 0, and only then.
C10_MissingRatingKeptAtZero ==
    Filtered =>
        \A i \in 1..Len(df) :
            (df[i].Rating = NA /\ PassesOthers(df[i])) =>
                (i \in Labels(filtered_df) <=> rating_filter = DefaultRating)

====
